---- MODULE Spec2Model ----
(***************************************************************************)
(* A model of src/cloud_manager.py: the CloudManager backend (VM registry  *)
(* backed by virtual_machines.json, disk and ISO inventory, hypervisor     *)
(* launch) and the CloudManagerGUI.create_vm entry point.                  *)
(*                                                                         *)
(* Python strings are TLA+ strings; s[i] is SubSeq(s, i, i).  Python       *)
(* values that are stored in the registry are tagged records (PyStr,       *)
(* PyInt, None) so that a list of VM dicts has one uniform shape.          *)
(***************************************************************************)
EXTENDS Integers, Sequences, FiniteSets, TLC

(***************************************************************************)
(* Bounds of the model.                                                    *)
(***************************************************************************)
\* most definitions a run submits, and the longest list an instance holds
MaxVMs == 3

\* longest registry list in the launch specification
MaxLaunchVMs == 1

(***************************************************************************)
(* Python values.                                                          *)
(***************************************************************************)
None == [t |-> "none", s |-> "", n |-> 0]

PyStr(x) == [t |-> "str", s |-> x, n |-> 0]

PyInt(i) == [t |-> "int", s |-> "", n |-> i]

\* Python truthiness of a registry value (None, "" and 0 are falsy)
Truthy(v) == \/ v.t = "str" /\ v.s # ""
             \/ v.t = "int" /\ v.n # 0

\* the dict built by create_virtual_machine
vm_config(vm_name, cpu_cores, memory_size, disk_path, iso_path) ==
    [name |-> PyStr(vm_name), cpu_cores |-> PyInt(cpu_cores),
     memory |-> PyStr(memory_size), disk |-> PyStr(disk_path), iso |-> iso_path]

(***************************************************************************)
(* json.dump / json.load on the registry document.  A document is a        *)
(* sequence of JSON tokens (white space, which indent=4 adds, carries no   *)
(* meaning and is left out).  A token is a record [t, s, n]: t is the      *)
(* punctuation character itself, or "str", "int", "null".                  *)
(***************************************************************************)
Punct(c) == [t |-> c, s |-> "", n |-> 0]

\* encoder: a Python scalar as one token (None is written as null)
ScalarTok(v) == IF v.t = "none" THEN [t |-> "null", s |-> "", n |-> 0] ELSE v

\* decoder: a scalar token as a Python value (null is read as None)
ScalarVal(tok) == IF tok.t = "null" THEN None ELSE tok

IsScalarTok(tok) == tok.t \in {"str", "int", "null"}

\* the keys of a VM dict in insertion order (dicts keep it, json.dump follows it)
VMKeys == <<"name", "cpu_cores", "memory", "disk", "iso">>

RECURSIVE DumpMembers(_, _)
DumpMembers(vm, k) ==
    IF k > Len(VMKeys) THEN <<>>
    ELSE (IF k = 1 THEN <<>> ELSE <<Punct(",")>>)
         \o <<PyStr(VMKeys[k]), Punct(":"), ScalarTok(vm[VMKeys[k]])>>
         \o DumpMembers(vm, k + 1)

DumpObject(vm) == <<Punct("{")>> \o DumpMembers(vm, 1) \o <<Punct("}")>>

RECURSIVE DumpElements(_, _)
DumpElements(list, k) ==
    IF k > Len(list) THEN <<>>
    ELSE (IF k = 1 THEN <<>> ELSE <<Punct(",")>>)
         \o DumpObject(list[k]) \o DumpElements(list, k + 1)

\* json.dump(self.virtual_machines, f, indent=4): the whole document
json_dump(list) == <<Punct("[")>> \o DumpElements(list, 1) \o <<Punct("]")>>

\* a parse result: ok = FALSE stands for json.JSONDecodeError
ParseFail == [ok |-> FALSE, pos |-> 0, val |-> <<>>]

\* the members of an object from position pos (a key is expected there);
\* a repeated key keeps its last value, as a Python dict does
RECURSIVE ParseMembers(_, _, _)
ParseMembers(toks, pos, obj) ==
    IF pos + 3 > Len(toks) THEN ParseFail
    ELSE IF \/ toks[pos].t # "str"
            \/ toks[pos + 1].t # ":"
            \/ ~IsScalarTok(toks[pos + 2]) THEN ParseFail
    ELSE LET obj2 == (toks[pos].s :> ScalarVal(toks[pos + 2])) @@ obj IN
         IF toks[pos + 3].t = "}" THEN [ok |-> TRUE, pos |-> pos + 4, val |-> obj2]
         ELSE IF toks[pos + 3].t = "," THEN ParseMembers(toks, pos + 4, obj2)
         ELSE ParseFail

\* one object starting at pos ("{" is expected there)
ParseObject(toks, pos) ==
    IF pos + 1 > Len(toks) \/ toks[pos].t # "{" THEN ParseFail
    ELSE IF toks[pos + 1].t = "}" THEN [ok |-> TRUE, pos |-> pos + 2, val |-> <<>>]
    ELSE ParseMembers(toks, pos + 1, <<>>)

\* the elements of the array from position pos (an element is expected there)
RECURSIVE ParseElements(_, _, _)
ParseElements(toks, pos, acc) ==
    LET r == ParseObject(toks, pos) IN
    IF ~r.ok THEN ParseFail
    ELSE IF r.pos > Len(toks) THEN ParseFail
    ELSE IF toks[r.pos].t = "]"
         THEN [ok |-> TRUE, pos |-> r.pos + 1, val |-> Append(acc, r.val)]
    ELSE IF toks[r.pos].t = ","
         THEN ParseElements(toks, r.pos + 1, Append(acc, r.val))
    ELSE ParseFail

\* json.load(f) of a registry document: an array of objects with scalar
\* members; anything else the model can produce (a truncated document, the
\* empty file, trailing data) is a JSONDecodeError
json_load(toks) ==
    IF Len(toks) < 2 \/ toks[1].t # "[" THEN ParseFail
    ELSE LET r == IF toks[2].t = "]"
                  THEN [ok |-> TRUE, pos |-> 3, val |-> <<>>]
                  ELSE ParseElements(toks, 2, <<>>)
         IN IF r.ok /\ r.pos = Len(toks) + 1 THEN r ELSE ParseFail

(***************************************************************************)
(* Python string and number operations used by the code.                   *)
(***************************************************************************)
\* s[k] for 1 <= k <= len(s) (one character)
Char(s, k) == SubSeq(s, k, k)

\* s[-1]; the caller makes sure s is not empty (Python raises IndexError)
LastChar(s) == Char(s, Len(s))

\* s[:-1]
DropLast(s) == SubSeq(s, 1, Len(s) - 1)

\* str.upper() on one character, for the letters the model uses
Upper(c) == CASE c = "g" -> "G"
              [] c = "m" -> "M"
              [] c = "k" -> "K"
              [] c = "x" -> "X"
              [] OTHER -> c

Digits == <<"0", "1", "2", "3", "4", "5", "6", "7", "8", "9">>

IsDigit(c) == \E d \in 1..10 : Digits[d] = c

DigitVal(c) == (CHOOSE d \in 1..10 : Digits[d] = c) - 1

\* a non-empty run of decimal digits
IsDigits(s) == Len(s) > 0 /\ \A k \in 1..Len(s) : IsDigit(Char(s, k))

\* every character is a digit (the empty string included)
AllDigits(s) == \A k \in 1..Len(s) : IsDigit(Char(s, k))

RECURSIVE StrToNat(_)
StrToNat(s) ==
    IF Len(s) = 0 THEN 0 ELSE 10 * StrToNat(DropLast(s)) + DigitVal(LastChar(s))

\* str(n) for n >= 0
RECURSIVE NatToStr(_)
NatToStr(n) ==
    IF n < 10 THEN Digits[n + 1] ELSE NatToStr(n \div 10) \o Digits[(n % 10) + 1]

RECURSIVE Pow10(_)
Pow10(k) == IF k = 0 THEN 1 ELSE 10 * Pow10(k - 1)

\* the position of the first "." of s, 0 if there is none
RECURSIVE DotAt(_, _)
DotAt(s, k) ==
    IF k > Len(s) THEN 0 ELSE IF Char(s, k) = "." THEN k ELSE DotAt(s, k + 1)

\* int(s) for a string over digits, "." and letters: only a run of digits
\* parses (ok = FALSE stands for ValueError)
ParseInt(s) ==
    IF IsDigits(s) THEN [ok |-> TRUE, n |-> StrToNat(s)] ELSE [ok |-> FALSE, n |-> 0]

\* float(s) for a string over digits, "." and letters: digits, digits "." ,
\* "." digits or digits "." digits parse, to the exact value num / den
\* (ok = FALSE stands for ValueError)
ParseFloat(s) ==
    LET d == DotAt(s, 1)
        ip == IF d = 0 THEN s ELSE SubSeq(s, 1, d - 1)
        fp == IF d = 0 THEN "" ELSE SubSeq(s, d + 1, Len(s))
    IN IF AllDigits(ip) /\ AllDigits(fp) /\ Len(ip) + Len(fp) > 0
       THEN [ok |-> TRUE, num |-> StrToNat(ip \o fp), den |-> Pow10(Len(fp))]
       ELSE [ok |-> FALSE, num |-> 0, den |-> 1]

\* s.replace(a, b) for one-character a
RECURSIVE Replace(_, _, _)
Replace(s, a, b) ==
    IF Len(s) = 0 THEN ""
    ELSE (IF Char(s, 1) = a THEN b ELSE Char(s, 1)) \o Replace(Tail(s), a, b)

\* ' '.join(list), as the fragments of the joined string
RECURSIVE Join(_)
Join(list) ==
    IF Len(list) = 0 THEN <<>>
    ELSE IF Len(list) = 1 THEN <<list[1]>>
    ELSE <<list[1], " ">> \o Join(Tail(list))

\* sub in s
Contains(s, sub) ==
    \E k \in 1..(Len(s) - Len(sub) + 1) : SubSeq(s, k, k + Len(sub) - 1) = sub

\* s.find(sub, k - 1) + 1: the first position >= k where sub starts, 0 if none
RECURSIVE Find(_, _, _)
Find(s, sub, k) ==
    IF k + Len(sub) - 1 > Len(s) THEN 0
    ELSE IF SubSeq(s, k, k + Len(sub) - 1) = sub THEN k
    ELSE Find(s, sub, k + 1)

\* s.split(sep)[1] for an s that holds sep
SplitSecond(s, sep) ==
    LET a == Find(s, sep, 1)
        b == Find(s, sep, a + Len(sep))
    IN SubSeq(s, a + Len(sep), IF b = 0 THEN Len(s) ELSE b - 1)

IsSpace(c) == c \in {" ", "\t", "\n", "\r"}

RECURSIVE LStrip(_)
LStrip(s) == IF Len(s) > 0 /\ IsSpace(Char(s, 1)) THEN LStrip(Tail(s)) ELSE s

RECURSIVE RStrip(_)
RStrip(s) == IF Len(s) > 0 /\ IsSpace(LastChar(s)) THEN RStrip(DropLast(s)) ELSE s

\* s.strip()
Strip(s) == RStrip(LStrip(s))

\* str.lower() on one character, for the capitals the model uses
Lower(c) == CASE c = "I" -> "i"
              [] c = "S" -> "s"
              [] c = "O" -> "o"
              [] c = "U" -> "u"
              [] OTHER -> c

\* s.lower()
RECURSIVE LowerStr(_)
LowerStr(s) == IF Len(s) = 0 THEN "" ELSE Lower(Char(s, 1)) \o LowerStr(Tail(s))

\* s.endswith(suffix)
EndsWith(s, suffix) ==
    Len(suffix) <= Len(s) /\ SubSeq(s, Len(s) - Len(suffix) + 1, Len(s)) = suffix

\* f"{size_bytes / (1024 * 1024):.2f}": the quotient is exact in a double, so
\* the two decimals are those of the exact value, a tie going to the even digit
Format2f(size_bytes) ==
    LET den == 1024 * 1024
        q == (size_bytes * 100) \div den
        r == (size_bytes * 100) % den
        h == IF 2 * r > den \/ (2 * r = den /\ q % 2 = 1) THEN q + 1 ELSE q
    IN NatToStr(h \div 100) \o "." \o Digits[((h \div 10) % 10) + 1]
                                  \o Digits[(h % 10) + 1]

(***************************************************************************)
(* Paths and the filesystem.  fs holds the entries that exist, each under  *)
(* its path written with "/".                                              *)
(***************************************************************************)
\* os.sep
Sep(plat) == IF plat = "Windows" THEN "\\" ELSE "/"

\* os.path.join(a, b) for a relative b
PathJoin(plat, a, b) == a \o Sep(plat) \o b

\* the entry a path names: on Windows "\\" separates as "/" does
NormPath(plat, p) == IF plat = "Windows" THEN Replace(p, "\\", "/") ELSE p

\* the position of the last "/" of s at or before k, 0 if there is none
RECURSIVE LastSlash(_, _)
LastSlash(s, k) ==
    IF k = 0 THEN 0 ELSE IF Char(s, k) = "/" THEN k ELSE LastSlash(s, k - 1)

\* os.path.basename(p)
basename(plat, p) ==
    LET q == NormPath(plat, p) IN SubSeq(q, LastSlash(q, Len(q)) + 1, Len(q))

\* os.path.exists(p)
Exists(plat, files, p) ==
    \E q \in {NormPath(plat, p)} : \E e \in files : e.path = q

\* os.path.isfile(p)
IsFile(plat, files, p) ==
    \E q \in {NormPath(plat, p)} : \E e \in files : e.path = q /\ e.kind = "file"

\* os.path.getsize(p) of an existing p
GetSize(plat, files, p) ==
    (CHOOSE e \in files : \E q \in {NormPath(plat, p)} : e.path = q).size

\* the entry p is directly in directory d
InDir(p, d) ==
    /\ Len(p) > Len(d) + 1
    /\ SubSeq(p, 1, Len(d) + 1) = d \o "/"
    /\ LastSlash(p, Len(p)) = Len(d) + 1

\* the names os.listdir(d) returns, as a set
ListDir(files, d) ==
    { SubSeq(e.path, Len(d) + 2, Len(e.path)) : e \in {x \in files : InDir(x.path, d)} }

\* the orders os.listdir may return the names in (the order is arbitrary)
Orders(names) ==
    { o \in [1..Cardinality(names) -> names] :
         \A a, b \in 1..Cardinality(names) : a # b => o[a] # o[b] }

\* the file p is created, or replaced, with size_bytes bytes
WriteFile(files, p, size_bytes) ==
    {e \in files : e.path # p} \cup {[path |-> p, kind |-> "file", size |-> size_bytes]}

\* self.disks_dir, self.iso_dir (lines 12-13)
disks_dir == "virtual_disks"

iso_dir == "iso_images"

\* os.makedirs(d) unless d exists
MakeDir(files, d) ==
    IF \E e \in files : e.path = d THEN files
    ELSE files \cup {[path |-> d, kind |-> "dir", size |-> 0]}

(***************************************************************************)
(* State.                                                                  *)
(***************************************************************************)
VARIABLES
    platform,          \* platform.system() of the host
    fs,                \* the files and directories that exist: {[path, kind, size]}
    vms_file,          \* virtual_machines.json: [exists, toks]
    virtual_machines,  \* self.virtual_machines of each application instance
    constructed,       \* which instances hold a live CloudManager
    submitted,         \* the definitions passed to the create calls so far
    writer,            \* the instance whose create wrote the file last (0: none)
    launch,            \* what the most recent start_virtual_machine call did
    gui,               \* the window of instance 1: [disk_paths, iso_paths]
    last               \* the most recent call: [op, inst, ret, exc, msg, val, env]

registry_vars == <<vms_file, virtual_machines, constructed, submitted, writer>>

vars == <<platform, fs, vms_file, virtual_machines, constructed, submitted,
          writer, launch, gui, last>>

\* application instances (processes) that share the working directory
Instances == {1, 2}

\* a call that returned no list and whose environment had no part in it
NoVal == [none |-> TRUE]

\* what a call left behind: ret is "True" / "False" (the first component of
\* the returned pair), "none" (no return value) or "raise" (exc propagated
\* to the caller); msg is the second component of the returned pair, an
\* f-string kept as the sequence of its fragments
Call(op, inst, ret, exc, msg) ==
    [op |-> op, inst |-> inst, ret |-> ret, exc |-> exc, msg |-> msg,
     val |-> NoVal, env |-> NoVal]

\* a call with more to tell: val is a record holding the returned list
\* (disks, iso_files), what the call handed to an external tool (command) or
\* the path it wrote (dest_path); env is a record of what the call was given
\* and what the environment did during it
CallVal(op, inst, ret, exc, msg, val, env) ==
    [op |-> op, inst |-> inst, ret |-> ret, exc |-> exc, msg |-> msg,
     val |-> val, env |-> env]

\* a process that was not spawned, or that the code does not observe
NoProc == [within |-> FALSE, code |-> 0, stderr |-> ""]

\* no start_virtual_machine call yet, or one that raised before line 129
\* bound vm
NoLaunch ==
    [vm_index |-> 0, vm |-> vm_config("", 0, "", "", None), memory_mb |-> 0,
     qemu_cmd |-> <<>>, spawn |-> "none", wait |-> "none", proc |-> NoProc]

\* definitions offered to the registry specifications
RegistryDefs ==
    { vm_config("vm1", 2, "2G", "virtual_disks/alpha.qcow2", None),
      vm_config("", 1, "512M", "virtual_disks/alpha.qcow2", PyStr("iso_images/x.iso")),
      vm_config("vm1", 1, "2G", "", PyStr("")) }

Init ==
    /\ platform \in {"Windows", "Linux"}
    /\ fs = {}
    /\ vms_file = [exists |-> FALSE, toks |-> <<>>]
    /\ virtual_machines = [i \in Instances |-> <<>>]
    /\ constructed = [i \in Instances |-> FALSE]
    /\ submitted = <<>>
    /\ writer = 0
    /\ launch = NoLaunch
    /\ gui = [disk_paths |-> <<>>, iso_paths |-> <<>>]
    /\ last = Call("boot", 0, "none", "", <<>>)

(***************************************************************************)
(* CloudManager.__init__: load the registry.                               *)
(***************************************************************************)
\* a slip: the JSONDecodeError is not caught and leaves the constructor
LoadRegistryUncaught(file) ==
    IF ~file.exists THEN [list |-> <<>>, exc |-> ""]
    ELSE IF json_load(file.toks).ok THEN [list |-> json_load(file.toks).val, exc |-> ""]
    ELSE [list |-> <<>>, exc |-> "JSONDecodeError"]

\* lines 24-29: a missing file and a JSONDecodeError both give the empty
\* list; exc names an exception that leaves the constructor (none does)
LoadRegistry(file) ==
    IF ~file.exists THEN [list |-> <<>>, exc |-> ""]
    ELSE IF json_load(file.toks).ok THEN [list |-> json_load(file.toks).val, exc |-> ""]
    ELSE [list |-> <<>>, exc |-> ""]

CloudManagerInit(i) ==
    LET r == LoadRegistry(vms_file) IN
    /\ virtual_machines' = [virtual_machines EXCEPT ![i] = r.list]
    /\ constructed' = [constructed EXCEPT ![i] = (r.exc = "")]
    /\ last' = IF r.exc = "" THEN Call("__init__", i, "none", "", <<>>)
               ELSE Call("__init__", i, "raise", r.exc, <<>>)
    /\ fs' = MakeDir(MakeDir(fs, disks_dir), iso_dir)
    /\ UNCHANGED <<platform, vms_file, submitted, writer, launch, gui>>

(***************************************************************************)
(* CloudManager.create_virtual_machine.                                    *)
(***************************************************************************)
\* a slip: the file is written before the new definition is appended
SaveThenAppend(list, vm) ==
    [mem |-> Append(list, vm),
     file |-> [exists |-> TRUE, toks |-> json_dump(list)]]

\* lines 121-123 when open() and the write succeed: append, then rewrite the
\* whole file from the list
AppendAndSave(list, vm) ==
    [mem |-> Append(list, vm),
     file |-> [exists |-> TRUE, toks |-> json_dump(Append(list, vm))]]

\* a different design: the file is re-read and the new definition merged into
\* what other instances wrote, while the in-memory list is only appended to
create_merging(i, vm) ==
    /\ constructed[i]
    /\ Len(virtual_machines[i]) < MaxVMs
    /\ Len(submitted) < MaxVMs
    /\ virtual_machines' = [virtual_machines EXCEPT ![i] = Append(@, vm)]
    /\ vms_file' = [exists |-> TRUE,
                    toks |-> json_dump(Append(LoadRegistry(vms_file).list, vm))]
    /\ submitted' = Append(submitted, vm)
    /\ writer' = i
    /\ last' = Call("create_virtual_machine", i, "True", "",
                    <<"Virtual Machine '", vm.name.s, "' created successfully!">>)
    /\ UNCHANGED <<platform, fs, constructed, launch, gui>>

create_virtual_machine(i, vm) ==
    /\ constructed[i]
    /\ Len(virtual_machines[i]) < MaxVMs
    /\ Len(submitted) < MaxVMs
    /\ virtual_machines' = [virtual_machines EXCEPT ![i] = AppendAndSave(@, vm).mem]
    /\ vms_file' = AppendAndSave(virtual_machines[i], vm).file
    /\ submitted' = Append(submitted, vm)
    /\ writer' = i
    /\ last' = Call("create_virtual_machine", i, "True", "",
                    <<"Virtual Machine '", vm.name.s, "' created successfully!">>)
    /\ UNCHANGED <<platform, fs, constructed, launch, gui>>

\* open(self.vms_file, 'w') raises (the file is not writable): the append of
\* line 121 has happened, the file is untouched, the OSError leaves the call
create_open_fails(i, vm) ==
    /\ constructed[i]
    /\ Len(virtual_machines[i]) < MaxVMs
    /\ virtual_machines' = [virtual_machines EXCEPT ![i] = Append(@, vm)]
    /\ last' = Call("create_virtual_machine", i, "raise", "PermissionError", <<>>)
    /\ UNCHANGED <<platform, fs, vms_file, constructed, submitted, writer, launch, gui>>

\* the process dies between open(..., 'w'), which truncates, and the end of
\* json.dump: a strict prefix (k tokens) of the new document stays on disk
create_crashes(i, vm) ==
    /\ constructed[i]
    /\ Len(virtual_machines[i]) < MaxVMs
    /\ LET doc == json_dump(Append(virtual_machines[i], vm)) IN
       \E k \in 0..(Len(doc) - 1) :
          vms_file' = [exists |-> TRUE, toks |-> SubSeq(doc, 1, k)]
    /\ virtual_machines' = [virtual_machines EXCEPT ![i] = <<>>]
    /\ constructed' = [constructed EXCEPT ![i] = FALSE]
    /\ last' = Call("crash", i, "none", "", <<>>)
    /\ UNCHANGED <<platform, fs, submitted, writer, launch, gui>>

\* the application is closed (main returns): the instance is gone, the file stays
exit_application(i) ==
    /\ constructed[i]
    /\ virtual_machines' = [virtual_machines EXCEPT ![i] = <<>>]
    /\ constructed' = [constructed EXCEPT ![i] = FALSE]
    /\ last' = Call("exit", i, "none", "", <<>>)
    /\ UNCHANGED <<platform, fs, vms_file, submitted, writer, launch, gui>>

(***************************************************************************)
(* SpecRoundTrip: instance 1 creates, instance 2 is the fresh CloudManager *)
(* constructed afterwards.  Every write succeeds.                          *)
(***************************************************************************)
NextRoundTrip ==
    \/ ~constructed[1] /\ CloudManagerInit(1)
    \/ \E vm \in RegistryDefs : create_virtual_machine(1, vm)
    \/ CloudManagerInit(2)

SpecRoundTrip == Init /\ [][NextRoundTrip]_vars

\* C1: registry round trip.  Whenever a fresh CloudManager (instance 2) has
\* just been constructed, its virtual_machines list has as many elements as
\* create_virtual_machine calls were made since the file was absent, and its
\* i-th element has the name, cpu_cores, memory, disk and iso of the i-th
\* submitted definition.
RoundTrip ==
    (last.op = "__init__" /\ last.inst = 2) =>
        /\ Len(virtual_machines[2]) = Len(submitted)
        /\ \A k \in 1..Len(submitted) :
              /\ virtual_machines[2][k].name = submitted[k].name
              /\ virtual_machines[2][k].cpu_cores = submitted[k].cpu_cores
              /\ virtual_machines[2][k].memory = submitted[k].memory
              /\ virtual_machines[2][k].disk = submitted[k].disk
              /\ virtual_machines[2][k].iso = submitted[k].iso

\* a fresh instance has reloaded at least two different definitions, one of
\* them with a null iso
RoundTripWitness ==
    /\ last.op = "__init__" /\ last.inst = 2
    /\ Len(submitted) >= 2
    /\ submitted[1] # submitted[2]
    /\ \E k \in 1..Len(submitted) : submitted[k].iso = None
    /\ virtual_machines[2] = submitted

(***************************************************************************)
(* SpecRegistry: one application instance that is started, creates         *)
(* definitions, is closed or killed during the rewrite, and started again. *)
(***************************************************************************)
\* definitions offered to SpecRegistry
CrashDefs ==
    { vm_config("vm1", 2, "2G", "virtual_disks/alpha.qcow2", None),
      vm_config("", 1, "512M", "", PyStr("iso_images/x.iso")) }

NextRegistry ==
    \/ ~constructed[1] /\ CloudManagerInit(1)
    \/ \E vm \in CrashDefs : create_virtual_machine(1, vm)
    \/ \E vm \in CrashDefs : create_crashes(1, vm)
    \/ exit_application(1)

SpecRegistry == Init /\ [][NextRegistry]_vars

\* the registry file holds a document cut short (the empty file included):
\* a registry document ends with its only "]"
Truncated(file) ==
    file.exists /\ (Len(file.toks) = 0 \/ file.toks[Len(file.toks)].t # "]")

\* C2: constructing a CloudManager on a truncated registry file (any strict
\* prefix of a registry document, the empty file included) raises nothing
\* and leaves an empty in-memory registry; a create_virtual_machine call
\* that follows returns success and the file then holds exactly that one
\* definition.
MalformedLoadsEmpty ==
    /\ [](last.op = "__init__" /\ Truncated(vms_file) =>
             /\ last.ret # "raise"
             /\ constructed[last.inst]
             /\ virtual_machines[last.inst] = <<>>)
    /\ [][(/\ last.op = "__init__" /\ Truncated(vms_file)
           /\ last'.op = "create_virtual_machine" /\ last'.ret # "raise") =>
             /\ last'.ret = "True"
             /\ json_load(vms_file'.toks).ok
             /\ Len(json_load(vms_file'.toks).val) = 1
             /\ json_load(vms_file'.toks).val = virtual_machines'[last'.inst]]_vars

\* an instance has just started on a non-empty truncated file that replaced
\* a registry with at least one definition
MalformedLoadsEmptyWitness ==
    /\ last.op = "__init__" /\ Truncated(vms_file)
    /\ Len(vms_file.toks) > 1
    /\ Len(submitted) >= 1
    /\ virtual_machines[last.inst] = <<>>

(***************************************************************************)
(* SpecShared: two application instances in one working directory.  Each   *)
(* step is a whole __init__ or a whole create_virtual_machine call.        *)
(***************************************************************************)
NextShared ==
    \/ \E i \in Instances : CloudManagerInit(i)
    \/ \E i \in Instances, vm \in RegistryDefs : create_virtual_machine(i, vm)

SpecShared == Init /\ [][NextShared]_vars

\* the list the registry file decodes to
FileList == json_load(vms_file.toks).val

\* C8: with two instances on one registry file the last writer wins: once
\* some instance has written, the file decodes to exactly the in-memory list
\* of the instance that wrote last, whatever the other instance holds.
LastWriterWins ==
    writer # 0 =>
        /\ vms_file.exists
        /\ json_load(vms_file.toks).ok
        /\ FileList = virtual_machines[writer]

\* a lost update: both instances have created a definition, the file is the
\* last writer's list and lacks a definition the other instance holds, so it
\* is not the merge of what was submitted
LastWriterWinsWitness ==
    /\ writer # 0
    /\ \E o \in Instances \ {writer} :
          /\ Len(virtual_machines[o]) > 0
          /\ \E k \in 1..Len(virtual_machines[o]) :
                \A j \in 1..Len(FileList) : FileList[j] # virtual_machines[o][k]
    /\ Len(FileList) < Len(submitted)
    /\ FileList = virtual_machines[writer]

(***************************************************************************)
(* CloudManager.start_virtual_machine.                                     *)
(***************************************************************************)
\* a different conversion: gigabytes rounded to the nearest megabyte
MemoryMBRounded(memory) ==
    IF Len(memory) = 0 THEN [exc |-> "IndexError", mb |-> 0]
    ELSE IF Upper(LastChar(memory)) = "G"
         THEN LET f == ParseFloat(DropLast(memory)) IN
              IF f.ok THEN [exc |-> "", mb |-> (2 * f.num * 1024 + f.den) \div (2 * f.den)]
              ELSE [exc |-> "ValueError", mb |-> 0]
         ELSE LET n == ParseInt(DropLast(memory)) IN
              IF n.ok THEN [exc |-> "", mb |-> n.n]
              ELSE [exc |-> "ValueError", mb |-> 0]

\* lines 132-136: memory[-1] raises IndexError on the empty string; a "G"
\* suffix (either case) gives int(float(prefix) * 1024), which truncates;
\* anything else gives int(prefix), the string without its last character
MemoryMB(memory) ==
    IF Len(memory) = 0 THEN [exc |-> "IndexError", mb |-> 0]
    ELSE IF Upper(LastChar(memory)) = "G"
         THEN LET f == ParseFloat(DropLast(memory)) IN
              IF f.ok THEN [exc |-> "", mb |-> (f.num * 1024) \div f.den]
              ELSE [exc |-> "ValueError", mb |-> 0]
         ELSE LET n == ParseInt(DropLast(memory)) IN
              IF n.ok THEN [exc |-> "", mb |-> n.n]
              ELSE [exc |-> "ValueError", mb |-> 0]

\* os.getcwd() of the application
Cwd(plat) == IF plat = "Windows" THEN "C:\\w" ELSE "/w"

\* os.path.abspath(p) of a relative path written with "/" (ntpath turns
\* the separators into backslashes)
abspath(plat, p) ==
    IF p = "" THEN Cwd(plat)
    ELSE IF plat = "Windows" THEN Cwd(plat) \o "\\" \o Replace(p, "/", "\\")
    ELSE IF Char(p, 1) = "/" THEN p
    ELSE Cwd(plat) \o "/" \o p

\* os.path.abspath(p).replace('\\', '/')
SlashPath(plat, p) == Replace(abspath(plat, p), "\\", "/")

\* str(v) of a registry value
PyToStr(v) == IF v.t = "int" THEN NatToStr(v.n)
              ELSE IF v.t = "none" THEN "None"
              ELSE v.s

\* a slip: the ISO is attached whenever the record names one
LaunchPlanNoExistsCheck(vm, memory_mb, plat, files) ==
    LET disk_path == SlashPath(plat, vm.disk.s)
        iso_path == SlashPath(plat, vm.iso.s)
        qemu_cmd ==
            <<"qemu-system-x86_64", "-name", vm.name.s, "-m", NatToStr(memory_mb),
              "-smp", PyToStr(vm.cpu_cores)>>
            \o <<"-hda", disk_path>>
            \o (IF Truthy(vm.iso) THEN <<"-cdrom", iso_path, "-boot", "d">>
                ELSE <<"-boot", "c">>)
            \o <<"-device", "e1000,netdev=net0", "-netdev", "user,id=net0">>
            \o <<"-accel", "tcg">>
            \o <<"-display", "sdl">>
    IN [qemu_cmd |-> qemu_cmd,
        debug_info |->
            <<"Starting VM '", vm.name.s, "' with:\n">>
            \o <<"- CPU: ", PyToStr(vm.cpu_cores), " cores\n">>
            \o <<"- Memory: ", NatToStr(memory_mb), "MB\n">>
            \o <<"- Disk: ", disk_path, "\n">>
            \o (IF Truthy(vm.iso)
                THEN <<"- ISO: ", iso_path, "\n",
                       "- Boot order: CD-ROM, then Hard Disk\n">>
                ELSE <<"- Boot order: Hard Disk only\n">>)
            \o <<"Full command: ">> \o Join(qemu_cmd) \o <<"\n">>]

\* a different vector: the acceleration arguments come before the network ones
LaunchPlanReordered(vm, memory_mb, plat, files) ==
    LET disk_path == SlashPath(plat, vm.disk.s)
        iso_path == SlashPath(plat, vm.iso.s)
        use_iso == Truthy(vm.iso) /\ Exists(plat, files, vm.iso.s)
        qemu_cmd ==
            <<"qemu-system-x86_64", "-name", vm.name.s, "-m", NatToStr(memory_mb),
              "-smp", PyToStr(vm.cpu_cores)>>
            \o <<"-hda", disk_path>>
            \o (IF use_iso THEN <<"-cdrom", iso_path, "-boot", "d">>
                ELSE <<"-boot", "c">>)
            \o <<"-accel", "tcg">>
            \o <<"-device", "e1000,netdev=net0", "-netdev", "user,id=net0">>
            \o <<"-display", "sdl">>
    IN [qemu_cmd |-> qemu_cmd,
        debug_info |-> <<"Starting VM '", vm.name.s, "' with:\n">>
                       \o <<"Full command: ">> \o Join(qemu_cmd) \o <<"\n">>]

\* lines 138-183: the argument vector (qemu_cmd) and the description of the
\* launch (debug_info); the ISO is attached when the record's iso is truthy
\* and os.path.exists finds it now
LaunchPlan(vm, memory_mb, plat, files) ==
    LET disk_path == SlashPath(plat, vm.disk.s)
        iso_path == SlashPath(plat, vm.iso.s)
        use_iso == Truthy(vm.iso) /\ Exists(plat, files, vm.iso.s)
        qemu_cmd ==
            <<"qemu-system-x86_64", "-name", vm.name.s, "-m", NatToStr(memory_mb),
              "-smp", PyToStr(vm.cpu_cores)>>
            \o <<"-hda", disk_path>>
            \o (IF use_iso THEN <<"-cdrom", iso_path, "-boot", "d">>
                ELSE <<"-boot", "c">>)
            \o <<"-device", "e1000,netdev=net0", "-netdev", "user,id=net0">>
            \o <<"-accel", "tcg">>
            \o <<"-display", "sdl">>
    IN [qemu_cmd |-> qemu_cmd,
        debug_info |->
            <<"Starting VM '", vm.name.s, "' with:\n">>
            \o <<"- CPU: ", PyToStr(vm.cpu_cores), " cores\n">>
            \o <<"- Memory: ", NatToStr(memory_mb), "MB\n">>
            \o <<"- Disk: ", disk_path, "\n">>
            \o (IF use_iso
                THEN <<"- ISO: ", iso_path, "\n",
                       "- Boot order: CD-ROM, then Hard Disk\n">>
                ELSE <<"- Boot order: Hard Disk only\n">>)
            \o <<"Full command: ">> \o Join(qemu_cmd) \o <<"\n">>]

\* what the hypervisor process may do once spawned: exit within the wait
\* window or not, with which status, with which text on its error stream
ProcBehaviours ==
    { [within |-> TRUE, code |-> 0, stderr |-> ""],
      [within |-> TRUE, code |-> 1, stderr |-> "qemu: could not open disk"],
      [within |-> TRUE, code |-> 1, stderr |-> ""],
      [within |-> FALSE, code |-> 0, stderr |-> ""],
      [within |-> FALSE, code |-> 1, stderr |-> "qemu: late failure"] }

\* what subprocess.Popen may do: start the process or raise
SpawnOutcomes == {"ok", "FileNotFoundError"}

\* a slip: a process still running at the end of the wait counts as failed
SpawnAndCheckStrict(plat, vm, debug_info, spawn, proc) ==
    IF spawn # "ok"
    THEN [ret |-> "False", wait |-> "none", proc |-> NoProc,
          msg |-> <<"Error starting VM: ", spawn, "\n">> \o debug_info]
    ELSE IF plat = "Windows"
    THEN IF ~proc.within \/ proc.code # 0
         THEN [ret |-> "False", wait |-> IF proc.within THEN "exited" ELSE "timeout",
               proc |-> proc,
               msg |-> <<"QEMU process exited with code ", NatToStr(proc.code),
                         ": ", proc.stderr>>]
         ELSE [ret |-> "True", wait |-> "exited", proc |-> proc,
               msg |-> <<"VM '", vm.name.s, "' started successfully!\n">> \o debug_info]
    ELSE [ret |-> "True", wait |-> "none", proc |-> NoProc,
          msg |-> <<"VM '", vm.name.s, "' started successfully!\n">> \o debug_info]

\* lines 185-211: spawn, and on Windows wait up to one second for an exit.
\* The result records how the wait ended and the process as far as the code
\* observed it (on other platforms it observes nothing).
SpawnAndCheck(plat, vm, debug_info, spawn, proc) ==
    IF spawn # "ok"
    THEN [ret |-> "False", wait |-> "none", proc |-> NoProc,
          msg |-> <<"Error starting VM: ", spawn, "\n">> \o debug_info]
    ELSE IF plat = "Windows"
    THEN IF proc.within /\ proc.code # 0
         THEN [ret |-> "False", wait |-> "exited", proc |-> proc,
               msg |-> <<"QEMU process exited with code ", NatToStr(proc.code),
                         ": ", proc.stderr>>]
         ELSE [ret |-> "True", wait |-> IF proc.within THEN "exited" ELSE "timeout",
               proc |-> proc,
               msg |-> <<"VM '", vm.name.s, "' started successfully!\n">> \o debug_info]
    ELSE [ret |-> "True", wait |-> "none", proc |-> NoProc,
          msg |-> <<"VM '", vm.name.s, "' started successfully!\n">> \o debug_info]

\* list[vm_index] with Python's indexing: -len .. len-1 are valid
PyIndexValid(list, vm_index) == -Len(list) <= vm_index /\ vm_index < Len(list)

PyIndex(list, vm_index) ==
    list[IF vm_index >= 0 THEN vm_index + 1 ELSE Len(list) + vm_index + 1]

\* the body of start_virtual_machine on the list `list`, the outcome recorded
\* under the name op of the call or handler that ran it; Popen and the
\* process behave as one of spawns and procs
Start(i, op, list, vm_index, spawns, procs) ==
    IF ~PyIndexValid(list, vm_index)
    THEN /\ launch' = [NoLaunch EXCEPT !.vm_index = vm_index]
         /\ last' = Call(op, i, "raise", "IndexError", <<>>)
    ELSE LET vm == PyIndex(list, vm_index)
             mem == MemoryMB(vm.memory.s)
         IN IF mem.exc # ""
            THEN /\ launch' = [NoLaunch EXCEPT !.vm_index = vm_index, !.vm = vm]
                 /\ last' = Call(op, i, "raise", mem.exc, <<>>)
            ELSE \E plan \in {LaunchPlan(vm, mem.mb, platform, fs)} :
                 \E spawn \in spawns, proc \in procs :
                 \E out \in {SpawnAndCheck(platform, vm, plan.debug_info,
                                           spawn, proc)} :
                    /\ launch' = [vm_index |-> vm_index, vm |-> vm,
                                  memory_mb |-> mem.mb,
                                  qemu_cmd |-> plan.qemu_cmd,
                                  spawn |-> spawn, wait |-> out.wait,
                                  proc |-> out.proc]
                    /\ last' = Call(op, i, out.ret, "", out.msg)

start_virtual_machine(i, vm_index) ==
    /\ constructed[i]
    /\ Start(i, "start_virtual_machine", virtual_machines[i], vm_index,
             SpawnOutcomes, ProcBehaviours)
    /\ UNCHANGED <<platform, fs, registry_vars, gui>>

(***************************************************************************)
(* The environment: ISO files appear and disappear.                        *)
(***************************************************************************)
IsoPaths == {"iso_images/x.iso"}

file_created(p) ==
    /\ ~Exists(platform, fs, p)
    /\ fs' = fs \cup {[path |-> p, kind |-> "file", size |-> 0]}
    /\ last' = Call("file_created", 0, "none", "", <<>>)
    /\ UNCHANGED <<platform, registry_vars, launch, gui>>

file_deleted(p) ==
    /\ Exists(platform, fs, p)
    /\ fs' = {e \in fs : e.path # p}
    /\ last' = Call("file_deleted", 0, "none", "", <<>>)
    /\ UNCHANGED <<platform, registry_vars, launch, gui>>

(***************************************************************************)
(* SpecLaunch: one instance creates definitions and starts them while ISO  *)
(* files come and go.                                                      *)
(***************************************************************************)
\* memory strings offered to create_virtual_machine
MemoryStrings ==
    {"2G", "1.5G", "0.7G", "0.7g", "512M", "512", "1.5M", "xG", ""}

LaunchDefs ==
    { vm_config("vm1", 2, m, "virtual_disks/alpha.qcow2", None) : m \in MemoryStrings }
    \cup { vm_config("vm1", 1, "2G", "virtual_disks/alpha.qcow2", iso) :
              iso \in {PyStr(""), PyStr("iso_images/x.iso")} }

NextLaunch ==
    \/ ~constructed[1] /\ CloudManagerInit(1)
    \/ \E vm \in LaunchDefs :
          Len(virtual_machines[1]) < MaxLaunchVMs /\ create_virtual_machine(1, vm)
    \/ \E vm_index \in (-(MaxLaunchVMs + 1))..(MaxLaunchVMs + 1) :
          start_virtual_machine(1, vm_index)
    \/ \E p \in IsoPaths : file_created(p)
    \/ \E p \in IsoPaths : file_deleted(p)

SpecLaunch == Init /\ [][NextLaunch]_vars

(***************************************************************************)
(* Properties of start_virtual_machine.                                    *)
(***************************************************************************)
\* the last call was start_virtual_machine and it got as far as line 129
\* (vm is bound)
Started ==
    /\ last.op = "start_virtual_machine"
    /\ PyIndexValid(virtual_machines[last.inst], launch.vm_index)

\* the last call was start_virtual_machine and it built its argument vector
Planned == Started /\ last.ret # "raise"

\* the arguments frag appear in cmd, adjacent and in this order
HasArgs(cmd, frag) ==
    \E k \in 1..(Len(cmd) - Len(frag) + 1) : SubSeq(cmd, k, k + Len(frag) - 1) = frag

\* cmd holds "-cdrom <path of iso> -boot d"
AttachesIso(cmd, iso) ==
    \E k \in 1..(Len(cmd) - 3) :
        /\ cmd[k] = "-cdrom" /\ EndsWith(cmd[k + 1], Replace(iso, "\\", "/"))
        /\ cmd[k + 2] = "-boot" /\ cmd[k + 3] = "d"

\* C3: the boot order follows the filesystem at launch time.  The argument
\* vector of a start_virtual_machine call holds "-cdrom <iso> -boot d"
\* exactly when the record's iso is a non-empty string and that file exists
\* when the call runs; otherwise it holds "-boot c" and no "-cdrom".
BootOrderAtLaunch ==
    Planned =>
        LET vm == launch.vm
            cmd == launch.qemu_cmd
        IN IF vm.iso # None /\ vm.iso.s # "" /\ Exists(platform, fs, vm.iso.s)
           THEN AttachesIso(cmd, vm.iso.s) /\ ~HasArgs(cmd, <<"-boot", "c">>)
           ELSE /\ HasArgs(cmd, <<"-boot", "c">>)
                /\ ~HasArgs(cmd, <<"-cdrom">>)
                /\ ~HasArgs(cmd, <<"-boot", "d">>)

\* a definition that names an ISO was started while the file was missing and
\* booted from the hard disk
BootOrderAtLaunchWitness ==
    /\ Planned
    /\ launch.vm.iso # None /\ launch.vm.iso.s # ""
    /\ ~Exists(platform, fs, launch.vm.iso.s)
    /\ HasArgs(launch.qemu_cmd, <<"-boot", "c">>)

\* a numeral as the claims read it: digits, or digits "." digits
IsNumeral(s) ==
    LET d == DotAt(s, 1) IN
    IF d = 0 THEN IsDigits(s)
    ELSE IsDigits(SubSeq(s, 1, d - 1)) /\ IsDigits(SubSeq(s, d + 1, Len(s)))

\* the numeral s as the fraction num / den
NumeralNum(s) ==
    LET d == DotAt(s, 1) IN
    IF d = 0 THEN StrToNat(s) ELSE StrToNat(SubSeq(s, 1, d - 1) \o SubSeq(s, d + 1, Len(s)))

NumeralDen(s) ==
    LET d == DotAt(s, 1) IN IF d = 0 THEN 1 ELSE Pow10(Len(s) - d)

\* memory is "<n>M" / "<n>m" or a bare "<n>"
IsMegabyteForm(memory) ==
    \/ IsNumeral(memory)
    \/ Len(memory) > 0 /\ Upper(LastChar(memory)) = "M" /\ IsNumeral(DropLast(memory))

\* the <n> of a megabyte-form memory string
MegabyteNumeral(memory) == IF IsNumeral(memory) THEN memory ELSE DropLast(memory)

\* memory is "<n>G" / "<n>g"
IsGigabyteForm(memory) ==
    Len(memory) > 0 /\ Upper(LastChar(memory)) = "G" /\ IsNumeral(DropLast(memory))

\* the call passed "-m <mb>" to the hypervisor
PassesMemory(mb) == HasArgs(launch.qemu_cmd, <<"-m", NatToStr(mb)>>)

\* C4: for a memory string "<n>M" or a unit-less "<n>" the call raises
\* nothing and passes "-m floor(n)".
MegabyteMemoryIsFloor ==
    (Started /\ IsMegabyteForm(launch.vm.memory.s)) =>
        LET n == MegabyteNumeral(launch.vm.memory.s) IN
        /\ last.ret # "raise"
        /\ PassesMemory(NumeralNum(n) \div NumeralDen(n))

\* C5 as stated: for "<n>G" the call passes "-m round(n * 1024)", the
\* integer nearest to n * 1024.
GigabyteMemoryIsRounded ==
    (Started /\ IsGigabyteForm(launch.vm.memory.s)) =>
        LET n == DropLast(launch.vm.memory.s)
            d == launch.memory_mb * NumeralDen(n) - 1024 * NumeralNum(n)
        IN /\ last.ret # "raise"
           /\ PassesMemory(launch.memory_mb)
           /\ 2 * d <= NumeralDen(n) /\ -2 * d <= NumeralDen(n)

\* C5 as amended: for "<n>G" the call passes "-m floor(n * 1024)": n * 1024
\* is truncated, not rounded.
GigabyteMemoryIsTruncated ==
    (Started /\ IsGigabyteForm(launch.vm.memory.s)) =>
        LET n == DropLast(launch.vm.memory.s) IN
        /\ last.ret # "raise"
        /\ PassesMemory(launch.memory_mb)
        /\ launch.memory_mb * NumeralDen(n) <= 1024 * NumeralNum(n)
        /\ 1024 * NumeralNum(n) < (launch.memory_mb + 1) * NumeralDen(n)

\* a "<n>G" definition was started whose n * 1024 lies above the half: the
\* value passed is below the nearest integer
GigabyteMemoryIsTruncatedWitness ==
    /\ Planned /\ IsGigabyteForm(launch.vm.memory.s)
    /\ LET n == DropLast(launch.vm.memory.s) IN
       2 * (1024 * NumeralNum(n) - launch.memory_mb * NumeralDen(n)) > NumeralDen(n)

\* C9: on Windows a call that reached the spawn returns False exactly when
\* Popen raised or the process exited with a non-zero status within the wait
\* window, and then the message holds the captured error stream; in every
\* other case (exit status zero, or still running when the wait times out,
\* whatever the process does later) it returns True.  The wait ends with the
\* process exit or with the timeout.
WindowsLaunchOutcome ==
    (Planned /\ platform = "Windows") =>
        /\ last.ret \in {"True", "False"}
        /\ last.ret = "False" <=>
              \/ launch.spawn # "ok"
              \/ launch.proc.within /\ launch.proc.code # 0
        /\ (launch.spawn = "ok" /\ last.ret = "False") =>
              \E k \in 1..Len(last.msg) : last.msg[k] = launch.proc.stderr
        /\ launch.spawn = "ok" =>
              launch.wait = (IF launch.proc.within THEN "exited" ELSE "timeout")

\* a false success: the process was still running when the wait timed out
\* and failed afterwards
WindowsLaunchOutcomeWitness ==
    /\ Planned /\ platform = "Windows"
    /\ launch.spawn = "ok" /\ launch.wait = "timeout"
    /\ ~launch.proc.within /\ launch.proc.code # 0
    /\ last.ret = "True"

\* p is an absolute path written with "/" only
IsAbsoluteSlashPath(p) ==
    /\ Find(p, "\\", 1) = 0
    /\ \/ Len(p) > 0 /\ Char(p, 1) = "/"
       \/ Len(p) > 2 /\ SubSeq(p, 2, 3) = ":/"

\* C11: the argument vector has one shape.  It is, in this order, the
\* hypervisor name, "-name" <name>, "-m" <memMB>, "-smp" <cores>, "-hda"
\* <absolute "/" path of the record's disk>, then "-cdrom" <iso> "-boot" "d"
\* or "-boot" "c", then "-device" "e1000,netdev=net0" "-netdev"
\* "user,id=net0" "-accel" "tcg" "-display" "sdl", and nothing else; a
\* definition with 2 cores, memory "2G" and no iso gives
\* "-m 2048 -smp 2 -hda <path> -boot c".
ArgumentVectorShape ==
    Planned =>
        LET vm == launch.vm
            cmd == launch.qemu_cmd
            boot == IF HasArgs(cmd, <<"-cdrom">>) THEN 4 ELSE 2
        IN /\ Len(cmd) = 9 + boot + 8
           /\ SubSeq(cmd, 1, 8) =
                 <<"qemu-system-x86_64", "-name", vm.name.s, "-m",
                   NatToStr(launch.memory_mb), "-smp", NatToStr(vm.cpu_cores.n), "-hda">>
           /\ IsAbsoluteSlashPath(cmd[9])
           /\ EndsWith(cmd[9], "/" \o Replace(vm.disk.s, "\\", "/"))
           /\ IF boot = 4
              THEN /\ cmd[10] = "-cdrom" /\ IsAbsoluteSlashPath(cmd[11])
                   /\ SubSeq(cmd, 12, 13) = <<"-boot", "d">>
              ELSE SubSeq(cmd, 10, 11) = <<"-boot", "c">>
           /\ SubSeq(cmd, 10 + boot, Len(cmd)) =
                 <<"-device", "e1000,netdev=net0", "-netdev", "user,id=net0",
                   "-accel", "tcg", "-display", "sdl">>
           /\ (vm.cpu_cores.n = 2 /\ vm.memory.s = "2G" /\ vm.iso = None) =>
                 /\ SubSeq(cmd, 4, 8) = <<"-m", "2048", "-smp", "2", "-hda">>
                 /\ SubSeq(cmd, 10, 11) = <<"-boot", "c">>
                 /\ ~HasArgs(cmd, <<"-cdrom">>)

\* the definition with 2 cores, memory "2G" and no iso was started
ArgumentVectorShapeWitness ==
    /\ Planned
    /\ launch.vm.cpu_cores.n = 2 /\ launch.vm.memory.s = "2G" /\ launch.vm.iso = None
    /\ HasArgs(launch.qemu_cmd, <<"-m", "2048", "-smp", "2">>)

(***************************************************************************)
(* CloudManager.create_virtual_disk.                                       *)
(***************************************************************************)
\* what subprocess.run(..., check=True) may do: return, raise
\* CalledProcessError (non-zero exit) or raise FileNotFoundError (no qemu-img
\* on the PATH)
RunOutcomes == {"ok", "CalledProcessError", "FileNotFoundError"}

\* the byte counts of the image files that appear in the disk directory
DiskBytes == {131072, 200704}

\* a different normalisation: the unit letter is also put in upper case
DiskSizeUpperUnit(disk_size) ==
    IF Upper(LastChar(disk_size)) \in {"G", "M", "K"}
    THEN DropLast(disk_size) \o Upper(LastChar(disk_size))
    ELSE disk_size \o "G"

\* lines 38-39: a size that does not end in G, M or K (either case) gets "G"
DiskSize(disk_size) ==
    IF Upper(LastChar(disk_size)) \in {"G", "M", "K"} THEN disk_size
    ELSE disk_size \o "G"

\* run is what subprocess.run does, size_bytes the size of the file a
\* successful qemu-img leaves
create_virtual_disk(i, disk_name, disk_format, disk_size, run, size_bytes) ==
    /\ constructed[i]
    /\ LET disk_path == PathJoin(platform, disks_dir, disk_name \o "." \o disk_format)
           op == "create_virtual_disk"
           args == <<disk_name, disk_format, disk_size>>
       IN IF Len(disk_size) = 0
          THEN /\ fs' = fs
               /\ last' = CallVal(op, i, "raise", "IndexError", <<>>, NoVal,
                                  [run |-> "none", given |-> args])
          ELSE LET command == <<"qemu-img", "create", "-f", disk_format,
                                abspath(platform, disk_path), DiskSize(disk_size)>>
                   dirs == MakeDir(fs, disks_dir)
               IN CASE run = "ok" ->
                         /\ fs' = WriteFile(dirs, NormPath(platform, disk_path), size_bytes)
                         /\ last' = CallVal(op, i, "True", "",
                                            <<"Success! Virtual disk created at: ",
                                              disk_path, "\n", "Formatting">>,
                                            [command |-> command],
                                            [run |-> run, given |-> args])
                    [] run = "CalledProcessError" ->
                         /\ fs' = dirs
                         /\ last' = CallVal(op, i, "False", "",
                                            <<"Error creating disk: ", run,
                                              "\nCommand output: ", "qemu-img: error">>,
                                            [command |-> command],
                                            [run |-> run, given |-> args])
                    [] OTHER ->
                         /\ fs' = dirs
                         /\ last' = CallVal(op, i, "raise", run, <<>>,
                                            [command |-> command],
                                            [run |-> run, given |-> args])
    /\ UNCHANGED <<platform, registry_vars, launch, gui>>

(***************************************************************************)
(* CloudManager.list_virtual_disks.                                        *)
(***************************************************************************)
\* what "qemu-img info <file>" may do: print a description, exit non-zero,
\* or not be there to run
InfoOutcomes ==
    { [exc |-> "", stdout |-> <<"image: disk", "file format: qcow2",
                                "virtual size: 10 GiB">>],
      [exc |-> "", stdout |-> <<"image: disk">>],
      [exc |-> "CalledProcessError", stdout |-> <<>>],
      [exc |-> "FileNotFoundError", stdout |-> <<>>] }

\* lines 79-86: the last "file format:" and "virtual size:" lines win
RECURSIVE ParseInfo(_, _, _)
ParseInfo(lines, format_info, size_info) ==
    IF Len(lines) = 0 THEN [format |-> format_info, size |-> size_info]
    ELSE LET line == Head(lines) IN
         ParseInfo(Tail(lines),
                   IF Contains(line, "file format:")
                   THEN Strip(SplitSecond(line, "file format:")) ELSE format_info,
                   IF Contains(line, "virtual size:")
                   THEN Strip(SplitSecond(line, "virtual size:")) ELSE size_info)

\* lines 62-105 from position k of the listing on; order is what os.listdir
\* returned, info[filename] what the info query for filename does.  A
\* FileNotFoundError of subprocess.run is not caught and ends the call.
RECURSIVE ListDisksFrom(_, _, _, _, _, _)
ListDisksFrom(plat, files, order, info, k, disks) ==
    IF k > Len(order) THEN [exc |-> "", disks |-> disks]
    ELSE LET filename == order[k]
             disk_path == PathJoin(plat, disks_dir, filename)
         IN IF ~IsFile(plat, files, disk_path)
            THEN ListDisksFrom(plat, files, order, info, k + 1, disks)
            ELSE LET size_mb == Format2f(GetSize(plat, files, disk_path))
                     q == info[filename]
                 IN IF q.exc = "CalledProcessError"
                    THEN ListDisksFrom(plat, files, order, info, k + 1,
                            Append(disks, [index |-> k, name |-> filename,
                                           path |-> disk_path, format |-> "Unknown",
                                           size |-> size_mb \o " MB"]))
                    ELSE IF q.exc # ""
                    THEN [exc |-> q.exc, disks |-> <<>>]
                    ELSE ListDisksFrom(plat, files, order, info, k + 1,
                            Append(disks,
                                   [index |-> k, name |-> filename, path |-> disk_path]
                                   @@ ParseInfo(q.stdout, "Unknown",
                                                size_mb \o " MB (physical)")))

ListVirtualDisks(plat, files, order, info) ==
    ListDisksFrom(plat, files, order, info, 1, <<>>)

\* the names of the regular files in the disk directory
DiskFiles(files) ==
    { n \in ListDir(files, disks_dir) : IsFile("Linux", files, disks_dir \o "/" \o n) }

list_virtual_disks(i, infos) ==
    /\ constructed[i]
    /\ \E order \in Orders(ListDir(fs, disks_dir)) :
       \E info \in [DiskFiles(fs) -> infos] :
       \E r \in {ListVirtualDisks(platform, fs, order, info)} :
          last' = IF r.exc = ""
                  THEN CallVal("list_virtual_disks", i, "list", "", <<>>,
                               [disks |-> r.disks],
                               [order |-> order, info |-> info])
                  ELSE CallVal("list_virtual_disks", i, "raise", r.exc, <<>>, NoVal,
                               [order |-> order, info |-> info])
    /\ UNCHANGED <<platform, fs, registry_vars, launch, gui>>

(***************************************************************************)
(* CloudManager.list_iso_files and CloudManager.import_iso_file.           *)
(***************************************************************************)
\* lines 219-229 from position k of the listing on
RECURSIVE ListIsoFrom(_, _, _, _, _)
ListIsoFrom(plat, files, order, k, iso_files) ==
    IF k > Len(order) THEN iso_files
    ELSE LET filename == order[k]
             file_path == PathJoin(plat, iso_dir, filename)
         IN IF EndsWith(LowerStr(filename), ".iso") /\ IsFile(plat, files, file_path)
            THEN ListIsoFrom(plat, files, order, k + 1,
                    Append(iso_files,
                           [name |-> filename, path |-> file_path,
                            size |-> Format2f(GetSize(plat, files, file_path)) \o " MB"]))
            ELSE ListIsoFrom(plat, files, order, k + 1, iso_files)

\* lines 215-231
ListIsoFiles(plat, files, order) ==
    IF ~Exists(plat, files, iso_dir) THEN <<>>
    ELSE ListIsoFrom(plat, files, order, 1, <<>>)

list_iso_files(i) ==
    /\ constructed[i]
    /\ \E order \in Orders(ListDir(fs, iso_dir)) :
          last' = CallVal("list_iso_files", i, "list", "", <<>>,
                          [iso_files |-> ListIsoFiles(platform, fs, order)],
                          [listed |-> order])
    /\ UNCHANGED <<platform, fs, registry_vars, launch, gui>>

\* what os.rename and shutil.copy2 may do
MoveOutcomes == {"ok", "OSError"}

\* lines 238-241: the destination of the import
ImportDest(plat, source_path, dest_name) ==
    PathJoin(plat, iso_dir,
             IF dest_name = None THEN basename(plat, source_path) ELSE dest_name.s)

\* a slip: the copy is not attempted when the move fails
ImportIsoNoFallback(plat, files, source_path, dest_name, rename, copy) ==
    LET args == <<source_path, dest_name>> IN
    IF ~Exists(plat, files, source_path)
    THEN [fs |-> files, ret |-> "False", msg |-> <<"File not found: ", source_path>>,
          val |-> NoVal, env |-> [args |-> args, attempts |-> <<>>]]
    ELSE LET dest_path == ImportDest(plat, source_path, dest_name)
             moved == /\ rename = "ok"
                      /\ ~(plat = "Windows" /\ Exists(plat, files, dest_path))
         IN IF moved
            THEN [fs |-> WriteFile({e \in files : e.path # NormPath(plat, source_path)},
                                   NormPath(plat, dest_path),
                                   GetSize(plat, files, source_path)),
                  ret |-> "True",
                  msg |-> <<"ISO file imported successfully to ", dest_path>>,
                  val |-> [dest_path |-> dest_path],
                  env |-> [args |-> args, attempts |-> <<[call |-> "rename", ok |-> TRUE]>>]]
            ELSE [fs |-> files, ret |-> "False",
                  msg |-> <<"Error importing ISO file: ", "OSError">>,
                  val |-> [dest_path |-> dest_path],
                  env |-> [args |-> args, attempts |-> <<[call |-> "rename", ok |-> FALSE]>>]]

\* lines 235-254.  dest_name is None or a string; rename and copy are what
\* os.rename and shutil.copy2 do when they are called (os.rename cannot
\* replace an existing file on Windows, and neither call can write into a
\* directory that is not there).  The result holds the filesystem after the
\* call, the returned pair, the destination path (val) and the arguments
\* and the attempts made with their outcomes (env).
ImportIso(plat, files, source_path, dest_name, rename, copy) ==
    LET args == <<source_path, dest_name>> IN
    IF ~Exists(plat, files, source_path)
    THEN [fs |-> files, ret |-> "False", msg |-> <<"File not found: ", source_path>>,
          val |-> NoVal, env |-> [args |-> args, attempts |-> <<>>]]
    ELSE LET dest_path == ImportDest(plat, source_path, dest_name)
             moved == /\ rename = "ok"
                      /\ ~(plat = "Windows" /\ Exists(plat, files, dest_path))
                      /\ Exists(plat, files, iso_dir)
             copied == copy = "ok" /\ Exists(plat, files, iso_dir)
         IN IF moved
            THEN [fs |-> WriteFile({e \in files : e.path # NormPath(plat, source_path)},
                                   NormPath(plat, dest_path),
                                   GetSize(plat, files, source_path)),
                  ret |-> "True",
                  msg |-> <<"ISO file imported successfully to ", dest_path>>,
                  val |-> [dest_path |-> dest_path],
                  env |-> [args |-> args, attempts |-> <<[call |-> "rename", ok |-> TRUE]>>]]
            ELSE IF copied
            THEN [fs |-> WriteFile(files, NormPath(plat, dest_path),
                                   GetSize(plat, files, source_path)),
                  ret |-> "True",
                  msg |-> <<"ISO file imported successfully to ", dest_path>>,
                  val |-> [dest_path |-> dest_path],
                  env |-> [args |-> args,
                           attempts |-> <<[call |-> "rename", ok |-> FALSE],
                                          [call |-> "copy2", ok |-> TRUE]>>]]
            ELSE [fs |-> files, ret |-> "False",
                  msg |-> <<"Error importing ISO file: ", "OSError">>,
                  val |-> [dest_path |-> dest_path],
                  env |-> [args |-> args,
                           attempts |-> <<[call |-> "rename", ok |-> FALSE],
                                          [call |-> "copy2", ok |-> FALSE]>>]]

import_iso_file(i, source_path, dest_name, rename, copy) ==
    /\ constructed[i]
    /\ \E r \in {ImportIso(platform, fs, source_path, dest_name, rename, copy)} :
          /\ fs' = r.fs
          /\ last' = CallVal("import_iso_file", i, r.ret, "", r.msg, r.val, r.env)
    /\ UNCHANGED <<platform, registry_vars, launch, gui>>

\* a directory appears (the user makes one)
dir_created(p) ==
    /\ ~Exists(platform, fs, p)
    /\ fs' = MakeDir(fs, p)
    /\ last' = Call("dir_created", 0, "none", "", <<>>)
    /\ UNCHANGED <<platform, registry_vars, launch, gui>>

(***************************************************************************)
(* SpecDisks: one instance creates and lists disk images while files are   *)
(* deleted and a subdirectory appears in the disk directory.               *)
(***************************************************************************)
DiskNames == {"alpha", "beta"}

DiskSizeStrings == {"10", "512m", "20G", "xk", ""}

NextDisks ==
    \/ ~constructed[1] /\ CloudManagerInit(1)
    \/ \E disk_name \in DiskNames, disk_size \in DiskSizeStrings,
          run \in RunOutcomes, size_bytes \in DiskBytes :
          create_virtual_disk(1, disk_name, "qcow2", disk_size, run, size_bytes)
    \/ list_virtual_disks(1, InfoOutcomes)
    \/ \E disk_name \in DiskNames : file_deleted("virtual_disks/" \o disk_name \o ".qcow2")
    \/ dir_created("virtual_disks/old")

SpecDisks == Init /\ [][NextDisks]_vars

\* C7: list_virtual_disks never fails because an info query fails.  Whatever
\* each query does (prints, exits non-zero, cannot be run), the call returns
\* one entry per regular file of the disk directory, each with the file's
\* name and path; the entry of a file whose query failed has the format
\* "unknown" (in any case) and the size of the file in megabytes with two
\* decimals.
ListingSurvivesInfoFailure ==
    last.op = "list_virtual_disks" =>
        /\ last.ret # "raise"
        /\ Len(last.val.disks) = Cardinality(DiskFiles(fs))
        /\ \A n \in DiskFiles(fs) :
              \E k \in 1..Len(last.val.disks) :
                 LET d == last.val.disks[k] IN
                 /\ d.name = n
                 /\ NormPath(platform, d.path) = disks_dir \o "/" \o n
                 /\ last.env.info[n].exc # "" =>
                       /\ LowerStr(d.format) = "unknown"
                       /\ d.size = Format2f(GetSize(platform, fs, d.path)) \o " MB"

(***************************************************************************)
(* SpecCore: one instance on which every core operation is called.         *)
(***************************************************************************)
CoreDefs ==
    { vm_config("vm1", 2, m, "virtual_disks/alpha.qcow2", None) : m \in {"1G", "xG"} }

ImportSources == {"dl/x.iso"}

NextCore ==
    \/ ~constructed[1] /\ CloudManagerInit(1)
    \/ \E disk_size \in {"10", "10G"}, run \in RunOutcomes :
          create_virtual_disk(1, "alpha", "qcow2", disk_size, run, 200704)
    \/ list_virtual_disks(1, InfoOutcomes)
    \/ \E vm \in CoreDefs :
          Len(virtual_machines[1]) < MaxLaunchVMs /\ create_virtual_machine(1, vm)
    \/ \E vm \in CoreDefs :
          Len(virtual_machines[1]) < MaxLaunchVMs /\ create_open_fails(1, vm)
    \/ \E vm_index \in 0..(MaxLaunchVMs - 1) : start_virtual_machine(1, vm_index)
    \/ \E source_path \in ImportSources, rename \in MoveOutcomes, copy \in MoveOutcomes :
          import_iso_file(1, source_path, None, rename, copy)
    \/ list_iso_files(1)
    \/ \E p \in ImportSources : file_created(p)

SpecCore == Init /\ [][NextCore]_vars

CoreOps ==
    {"create_virtual_disk", "list_virtual_disks", "create_virtual_machine",
     "start_virtual_machine", "import_iso_file"}

\* C6: no core operation lets an exception reach its caller.  Every call of
\* create_virtual_disk, list_virtual_disks, create_virtual_machine,
\* import_iso_file, and of start_virtual_machine with an index in
\* 0..len-1, ends by returning, whatever the tools and the filesystem do.
CoreCallsReturn ==
    ( /\ last.op \in CoreOps
      /\ last.op = "start_virtual_machine" =>
            (0 <= launch.vm_index /\ launch.vm_index < Len(virtual_machines[last.inst])) )
    => last.ret # "raise"

(***************************************************************************)
(* CloudManagerGUI: the window of instance 1.  For a handler, ret is "True"*)
(* when its last dialog is showinfo, "False" when it is showerror, "none"  *)
(* when it shows no dialog, "raise" when an exception leaves the handler;  *)
(* msg is the text of the dialog.                                          *)
(***************************************************************************)
\* line 487
DiskPaths(disks) == [k \in 1..Len(disks) |-> disks[k].path]

\* lines 528-532
IsoPathsOf(isos) == [k \in 1..Len(isos) |-> isos[k].path]

\* CloudManagerGUI.__init__: the CloudManager is built, then the lists are
\* refreshed; an exception of list_virtual_disks leaves the constructor and
\* the application does not start
CloudManagerGUIInit(infos) ==
    /\ ~constructed[1]
    /\ fs' = MakeDir(MakeDir(fs, disks_dir), iso_dir)
    /\ \E order \in Orders(ListDir(fs, disks_dir)), iso_order \in Orders(ListDir(fs, iso_dir)) :
       \E info \in [DiskFiles(fs) -> infos] :
       \E r \in {ListVirtualDisks(platform, fs, order, info)} :
          IF r.exc # ""
          THEN /\ last' = Call("CloudManagerGUI", 1, "raise", r.exc, <<>>)
               /\ UNCHANGED <<virtual_machines, constructed, gui>>
          ELSE /\ virtual_machines' =
                     [virtual_machines EXCEPT ![1] = LoadRegistry(vms_file).list]
               /\ constructed' = [constructed EXCEPT ![1] = TRUE]
               /\ gui' = [disk_paths |-> DiskPaths(r.disks),
                          iso_paths |-> IsoPathsOf(ListIsoFiles(platform, fs', iso_order))]
               /\ last' = Call("CloudManagerGUI", 1, "none", "", <<>>)
    /\ UNCHANGED <<platform, vms_file, submitted, writer, launch>>

refresh_disk_list(infos) ==
    /\ constructed[1]
    /\ \E order \in Orders(ListDir(fs, disks_dir)) :
       \E info \in [DiskFiles(fs) -> infos] :
       \E r \in {ListVirtualDisks(platform, fs, order, info)} :
          IF r.exc # ""
          THEN /\ gui' = gui
               /\ last' = Call("refresh_disk_list", 1, "raise", r.exc, <<>>)
          ELSE /\ gui' = [gui EXCEPT !.disk_paths = DiskPaths(r.disks)]
               /\ last' = Call("refresh_disk_list", 1, "none", "", <<>>)
    /\ UNCHANGED <<platform, fs, registry_vars, launch>>

refresh_iso_list ==
    /\ constructed[1]
    /\ \E order \in Orders(ListDir(fs, iso_dir)) :
          gui' = [gui EXCEPT !.iso_paths = IsoPathsOf(ListIsoFiles(platform, fs, order))]
    /\ last' = Call("refresh_iso_list", 1, "none", "", <<>>)
    /\ UNCHANGED <<platform, fs, registry_vars, launch>>

\* a validation of create_vm failed: an error dialog, nothing else
Rejected(text) ==
    /\ last' = Call("create_vm", 1, "False", "", text)
    /\ UNCHANGED <<registry_vars, launch>>

\* CloudManagerGUI.create_vm.  form is what the VM tab holds: the name, core
\* count and memory entries and the selections of the two comboboxes (-1: no
\* selection; ISO selection 0 is "No ISO").  writable says whether open() of
\* the registry file succeeds, start_now is the answer to "start this VM now?".
create_vm(form, writable, start_now, spawns, procs) ==
    /\ constructed[1]
    /\ LET vm_name == Strip(form.vm_name) IN
       IF ~ParseInt(form.cpu_cores).ok
       THEN Rejected(<<"CPU cores must be a valid number">>)
       ELSE IF form.disk_index < 0
       THEN Rejected(<<"Please select a virtual disk">>)
       ELSE IF form.disk_index >= Len(gui.disk_paths)
       THEN Rejected(<<"No virtual disks available. Create one first.">>)
       ELSE LET disk_path == gui.disk_paths[form.disk_index + 1]
                iso_path == IF form.iso_index > 0 /\ form.iso_index <= Len(gui.iso_paths)
                            THEN PyStr(gui.iso_paths[form.iso_index]) ELSE None
            IN IF vm_name = ""
               THEN Rejected(<<"VM name cannot be empty">>)
               ELSE IF ~Exists(platform, fs, disk_path)
               THEN Rejected(<<"Disk file not found: ", disk_path,
                               "\nPlease refresh the disk list and try again.">>)
               ELSE IF Truthy(iso_path) /\ ~Exists(platform, fs, iso_path.s)
               THEN Rejected(<<"ISO file not found: ", iso_path.s,
                               "\nPlease refresh the ISO list and try again.">>)
               ELSE \E vm \in {vm_config(vm_name, ParseInt(form.cpu_cores).n,
                                         form.memory_size \o form.memory_unit,
                                         disk_path, iso_path)} :
                    IF ~writable
                    THEN /\ virtual_machines' = [virtual_machines EXCEPT ![1] = Append(@, vm)]
                         /\ last' = Call("create_vm", 1, "raise", "PermissionError", <<>>)
                         /\ UNCHANGED <<vms_file, constructed, submitted, writer, launch>>
                    ELSE /\ virtual_machines' =
                               [virtual_machines EXCEPT ![1] = AppendAndSave(@, vm).mem]
                         /\ vms_file' = AppendAndSave(virtual_machines[1], vm).file
                         /\ submitted' = Append(submitted, vm)
                         /\ writer' = 1
                         /\ UNCHANGED constructed
                         /\ IF start_now
                            THEN Start(1, "create_vm", Append(virtual_machines[1], vm),
                                       Len(virtual_machines[1]), spawns, procs)
                            ELSE /\ launch' = launch
                                 /\ last' = Call("create_vm", 1, "True", "",
                                                 <<"Virtual Machine '", vm_name,
                                                   "' created successfully!">>)
    /\ UNCHANGED <<platform, fs, gui>>

(***************************************************************************)
(* SpecGui: definitions are created through the window and through the     *)
(* core call while disk and ISO files come and go.                         *)
(***************************************************************************)
GuiFiles == {"virtual_disks/alpha.qcow2", "iso_images/x.iso"}

\* what the user may have typed and selected
GuiForms ==
    { [vm_name |-> n, cpu_cores |-> c, memory_size |-> "2", memory_unit |-> "G",
       disk_index |-> d, iso_index |-> i] :
         n \in {"vm1", " "}, c \in {"2", "two"},
         d \in -1..(Len(gui.disk_paths) - 1), i \in -1..Len(gui.iso_paths) }

\* what the core call is given
GuiDefs ==
    { vm_config("vm1", 2, "2G", "virtual_disks/alpha.qcow2", None),
      vm_config("", 2, "2G", "virtual_disks/alpha.qcow2", None),
      vm_config("vm1", 2, "2G", "virtual_disks/alpha.qcow2", PyStr("iso_images/x.iso")) }

GuiInfos == {q \in InfoOutcomes : q.exc # "" \/ Len(q.stdout) > 1}

GuiProcs == {p \in ProcBehaviours : p.stderr = ""}

NextGui ==
    \/ CloudManagerGUIInit(GuiInfos)
    \/ refresh_disk_list(GuiInfos)
    \/ refresh_iso_list
    \/ \E form \in GuiForms, writable \in BOOLEAN, start_now \in BOOLEAN :
          /\ Len(virtual_machines[1]) < MaxLaunchVMs
          /\ Len(submitted) < MaxVMs
          /\ create_vm(form, writable, start_now, SpawnOutcomes, GuiProcs)
    \/ \E vm \in GuiDefs :
          Len(virtual_machines[1]) < MaxLaunchVMs /\ create_virtual_machine(1, vm)
    \/ \E p \in GuiFiles : file_created(p)
    \/ \E p \in GuiFiles : file_deleted(p)

SpecGui == Init /\ [][NextGui]_vars

\* a definition that a creation request must be rejected for
InvalidDefinition(vm) ==
    \/ vm.name.s = ""
    \/ ~Exists(platform, fs, vm.disk.s)
    \/ vm.iso # None /\ ~Exists(platform, fs, vm.iso.s)

\* C10: an invalid creation request has no side effect, whichever entry point
\* takes it.  A step of a live instance that changes its in-memory list, or
\* the registry file, is the creation of the definition now last in that
\* list (in the file); that definition has a non-empty name, a disk path
\* that exists and, unless its iso is null, an ISO path that exists.
InvalidRequestsHaveNoEffect ==
    [][ /\ \A i \in Instances :
             (constructed[i] /\ constructed'[i]
                /\ virtual_machines'[i] # virtual_machines[i])
             => ~InvalidDefinition(virtual_machines'[i][Len(virtual_machines'[i])])
        /\ (vms_file' # vms_file /\ constructed' = constructed)
             => ~InvalidDefinition(
                    json_load(vms_file'.toks).val[Len(json_load(vms_file'.toks).val)])
      ]_vars

(***************************************************************************)
(* SpecIso: one instance imports files into the ISO directory and lists    *)
(* it, while source files appear and imported files are deleted.           *)
(***************************************************************************)
IsoSources == {"dl/x.iso", "dl/disk.img"}

IsoDestNames == {None, PyStr("y.ISO")}

\* the files an import of the model can leave in the ISO directory
IsoImported ==
    { "iso_images/" \o n : n \in {"x.iso", "disk.img", "y.ISO"} }

NextIso ==
    \/ ~constructed[1] /\ CloudManagerInit(1)
    \/ \E source_path \in IsoSources, dest_name \in IsoDestNames,
          rename \in MoveOutcomes, copy \in MoveOutcomes :
          import_iso_file(1, source_path, dest_name, rename, copy)
    \/ list_iso_files(1)
    \/ \E p \in IsoSources : file_created(p)
    \/ \E p \in IsoImported : file_deleted(p)

SpecIso == Init /\ [][NextIso]_vars

\* the name an import is to give the file: dest_name, or the base name of
\* the source when dest_name is None
ImportName(args) ==
    IF args[2] # None THEN args[2].s
    ELSE SubSeq(args[1], LastSlash(args[1], Len(args[1])) + 1, Len(args[1]))

\* C12: the protocol of import_iso_file.  A step that is an import_iso_file
\* call with a source that does not exist returns (False, "File not
\* found...") without attempting anything and leaves the filesystem as it
\* was.  With a source that exists the call attempts the move to
\* <iso_dir>/<destName> first, the copy only after a failed move, returns
\* True exactly when its last attempt succeeded and (False, "Error
\* importing...") when both failed; after a success the destination exists,
\* after a failure the filesystem is as it was.
ImportProtocol ==
    [][ last'.op = "import_iso_file" =>
          LET args == last'.env.args
              attempts == last'.env.attempts
              dest == iso_dir \o "/" \o ImportName(args)
          IN /\ last'.ret \in {"True", "False"}
             /\ IF ~\E e \in fs : e.path = args[1]
                THEN /\ last'.ret = "False"
                     /\ last'.msg[1] = "File not found: "
                     /\ attempts = <<>>
                     /\ fs' = fs
                ELSE /\ Len(attempts) \in {1, 2}
                     /\ attempts[1].call = "rename"
                     /\ Len(attempts) = 2 <=> ~attempts[1].ok
                     /\ Len(attempts) = 2 => attempts[2].call = "copy2"
                     /\ last'.ret = "True" <=> attempts[Len(attempts)].ok
                     /\ last'.ret = "True" =>
                           /\ \E e \in fs' : e.path = dest /\ e.kind = "file"
                           /\ NormPath(platform, last'.val.dest_path) = dest
                           /\ attempts[1].ok /\ dest # args[1] =>
                                 ~\E e \in fs' : e.path = args[1]
                           /\ ~attempts[1].ok => \E e \in fs' : e.path = args[1]
                     /\ last'.ret = "False" =>
                           /\ last'.msg[1] = "Error importing ISO file: "
                           /\ fs' = fs
      ]_vars

\* an import fell back to the copy after a failed move and succeeded: the
\* source is still there and the destination exists
ImportProtocolWitness ==
    /\ last.op = "import_iso_file" /\ last.ret = "True"
    /\ Len(last.env.attempts) = 2
    /\ \E e \in fs : e.path = last.env.args[1]
    /\ \E e \in fs : e.path = "iso_images/" \o ImportName(last.env.args)

\* C13: the size normalisation of create_virtual_disk is total on non-empty
\* strings.  For every non-empty size string S the call builds its command
\* and runs the tool, and the size in the command is S itself when the last
\* character of S is one of K, M, G, k, m, g, and S followed by "G" otherwise.
SizeNormalization ==
    (last.op = "create_virtual_disk" /\ last.env.given[3] # "") =>
        LET S == last.env.given[3] IN
        /\ last.env.run # "none"
        /\ last.exc # "IndexError"
        /\ Len(last.val.command) = 6
        /\ last.val.command[6] = IF LastChar(S) \in {"K", "M", "G", "k", "m", "g"}
                         THEN S ELSE S \o "G"

\* a size with a lower-case unit went to the tool unchanged, the leading
\* part not being a number
SizeNormalizationWitness ==
    /\ last.op = "create_virtual_disk"
    /\ last.env.given[3] = "xk"
    /\ last.val.command[6] = "xk"

\* C14: the registry file and the in-memory list of a single instance agree
\* between calls.  Once the instance has attempted a create (its list is not
\* empty: every attempt appends), the file exists and decodes to exactly the
\* in-memory list, also after an attempt whose file write failed.
FileMatchesMemory ==
    (constructed[1] /\ Len(virtual_machines[1]) > 0) =>
        /\ vms_file.exists
        /\ json_load(vms_file.toks).ok
        /\ json_load(vms_file.toks).val = virtual_machines[1]

\* C15: an index outside 0..len-1 starts nothing.  A start_virtual_machine
\* call with a negative index, or with one at or above the length of the
\* registry, spawns no process and does not return True.
OutOfRangeIndexStartsNothing ==
    ( /\ last.op = "start_virtual_machine"
      /\ \/ launch.vm_index < 0
         \/ launch.vm_index >= Len(virtual_machines[last.inst]) )
    => (launch.spawn = "none" /\ last.ret # "True")

\* C16: what an import reports as imported, the next listing shows.  When
\* an import_iso_file call has returned True for the destination name D and
\* the next call is list_iso_files, the list holds an entry with the name D
\* and the path <iso_dir>/D, whatever the extension of D.
ImportedIsListed ==
    [][ ( /\ last.op = "import_iso_file" /\ last.ret = "True"
          /\ last'.op = "list_iso_files" )
        => \E k \in 1..Len(last'.val.iso_files) :
              /\ last'.val.iso_files[k].name = ImportName(last.env.args)
              /\ NormPath(platform, last'.val.iso_files[k].path)
                    = iso_dir \o "/" \o ImportName(last.env.args)
      ]_vars

====
